---- MODULE Spec2Model ----
(***************************************************************************)
(* A state-machine model of seqspace.gpm.GenotypePhenotypeMap: the map     *)
(* object built by __init__, its property setters, sample() and            *)
(* subspace().                                                             *)
(*                                                                         *)
(* Conventions                                                             *)
(*  - a genotype is a sequence of one-letter symbols, <<"A","T">> is "AT"; *)
(*  - a numpy array / python list is a TLA+ sequence, so python index i is *)
(*    position i+1; the VALUES held in `indices` and in the keys of the    *)
(*    `mutations` dict are the python (0-based) ones;                      *)
(*  - an attribute that may be missing (hasattr false), None or an array   *)
(*    is a record [tag, v] with tag in {"absent","None","array"};          *)
(*  - an uncertainty view (StandardDeviationMap / StandardErrorMap) is the *)
(*    record of the arguments its constructor was called with;             *)
(*  - a float is a fixed-point number in hundredths: 100 is 1.0.           *)
(***************************************************************************)
EXTENDS Integers, Sequences, FiniteSets, TLC

VARIABLES gpm, result, nops

vars == <<gpm, result, nops>>

(***************************************************************************)
(* Bounds of the model.                                                    *)
(***************************************************************************)
\* number of setter calls applied to the map after construction
MaxOps == 3
\* largest n_samples passed to sample()
MaxSamples == 2
\* largest n_replicates
MaxReplicates == 2

(***************************************************************************)
(* Generic helpers.                                                        *)
(***************************************************************************)
Range(s) == {s[i] : i \in DOMAIN s}

NoDuplicates(s) == \A i, j \in DOMAIN s : i # j => s[i] # s[j]

\* the element of a one-element set.  The({e(x) : x \in {v}}) is e(v) with v
\* computed once: it names the result of a statement, as an assignment to a
\* local variable does
The(S) == CHOOSE x \in S : TRUE

\* the sub-sequence of s holding the elements that satisfy membership in S
RECURSIVE SelectIn(_, _)
SelectIn(s, S) ==
    IF s = <<>> THEN <<>>
    ELSE (IF Head(s) \in S THEN <<Head(s)>> ELSE <<>>) \o SelectIn(Tail(s), S)

\* the elements of a set of integers in ascending order (np.sort)
SortedSeq(S) ==
    [k \in 1..Cardinality(S) |->
        CHOOSE x \in S : Cardinality({y \in S : y < x}) = k - 1]

AbsentArr == [tag |-> "absent", v |-> <<>>]
NoneArr == [tag |-> "None", v |-> <<>>]
Arr(a) == [tag |-> "array", v |-> a]

(***************************************************************************)
(* Floats.  A float is a fixed-point number: the integer x stands for      *)
(* x / Unit, and every result is rounded to the nearest 1 / Unit.  NaN,    *)
(* NegInf and PosInf stand for nan, -inf and inf.                          *)
(***************************************************************************)
Unit == 100
PosInf == 2000000000
NegInf == -2000000000
NaN == -2100000000

IsFinite(x) == x \notin {NaN, NegInf, PosInf}

\* p / q for q > 0, rounded to the nearest integer
RoundDiv(p, q) == (2 * p + q) \div (2 * q)

\* the s in lo..hi-1 nearest to sqrt(p / q), for p >= 0, q > 0, lo below it
\* and hi above it
RECURSIVE SqrtBetween(_, _, _, _)
SqrtBetween(p, q, lo, hi) ==
    IF hi - lo <= 1 THEN lo
    ELSE The({IF (2 * mid - 1) * (2 * mid - 1) * q <= 4 * p
              THEN SqrtBetween(p, q, mid, hi)
              ELSE SqrtBetween(p, q, lo, mid) :
              mid \in {(lo + hi) \div 2}})

\* sqrt(p / q) rounded to the nearest integer, which is at most bound
RoundSqrt(p, q, bound) == SqrtBetween(p, q, 0, bound + 1)

\* a + b
Add(a, b) ==
    IF a = NaN \/ b = NaN THEN NaN
    ELSE IF {a, b} = {NegInf, PosInf} THEN NaN
    ELSE IF ~IsFinite(a) THEN a
    ELSE IF ~IsFinite(b) THEN b
    ELSE a + b

\* -1, 0 or 1
Sign(a) == IF a = PosInf THEN 1 ELSE IF a = NegInf THEN -1
           ELSE IF a > 0 THEN 1 ELSE IF a < 0 THEN -1 ELSE 0

\* a * b
Mul(a, b) ==
    IF a = NaN \/ b = NaN THEN NaN
    ELSE IF IsFinite(a) /\ IsFinite(b) THEN RoundDiv(a * b, Unit)
    ELSE IF Sign(a) * Sign(b) = 0 THEN NaN
    ELSE IF Sign(a) * Sign(b) > 0 THEN PosInf ELSE NegInf

RECURSIVE Pow10(_)
Pow10(d) == IF d = 0 THEN 1 ELSE 10 * Pow10(d - 1)

\* Log10Table[k] = 10^6 * 10^((k - 0.5) / 100) rounded up: a mantissa m in
\* [1, 10) has log10(m) >= (k - 0.5) / 100 iff 10^6 * m >= Log10Table[k]
Log10Table ==
    << 1011580, 1035143, 1059254, 1083927, 1109175, 1135011, 1161449, 1188503, 1216187, 1244515,
       1273504, 1303167, 1333522, 1364584, 1396369, 1428894, 1462178, 1496236, 1531088, 1566752,
       1603246, 1640590, 1678805, 1717909, 1757924, 1798871, 1840773, 1883650, 1927525, 1972423,
       2018367, 2065381, 2113490, 2162719, 2213095, 2264645, 2317395, 2371374, 2426611, 2483134,
       2540973, 2600160, 2660726, 2722702, 2786122, 2851019, 2917428, 2985383, 3054922, 3126080,
       3198896, 3273407, 3349655, 3427678, 3507519, 3589220, 3672824, 3758375, 3845918, 3935501,
       4027171, 4120976, 4216966, 4315191, 4415705, 4518560, 4623811, 4731513, 4841724, 4954502,
       5069908, 5188001, 5308845, 5432504, 5559043, 5688530, 5821033, 5956622, 6095369, 6237349,
       6382635, 6531306, 6683440, 6839117, 6998420, 7161435, 7328246, 7498943, 7673615, 7852357,
       8035262, 8222427, 8413952, 8609938, 8810489, 9015712, 9225715, 9440609, 9660509, 9885531 >>

\* the number of entries of Log10Table that are at most m6, the entries
\* 1..lo being so and the entries above hi not
RECURSIVE MantissaLog(_, _, _)
MantissaLog(m6, lo, hi) ==
    IF lo = hi THEN lo
    ELSE The({IF Log10Table[mid] <= m6
              THEN MantissaLog(m6, mid, hi)
              ELSE MantissaLog(m6, lo, mid - 1) :
              mid \in {(lo + hi + 1) \div 2}})

\* np.log10 of one value below 10^7 / Unit: x / Unit = m * 10^(d - 2) with
\* m in [1, 10), and log10 is d - 2 plus log10(m), in hundredths
Log10(x) ==
    IF x = NaN \/ x = NegInf THEN NaN
    ELSE IF x = PosInf THEN PosInf
    ELSE IF x < 0 THEN NaN
    ELSE IF x = 0 THEN NegInf
    ELSE The({(d - 2) * Unit + MantissaLog(x * Pow10(6 - d), 0, Len(Log10Table)) :
              d \in {CHOOSE e \in 0..6 : Pow10(e) <= x /\ x < Pow10(e + 1)}})

\* logbase applied elementwise to an array
logbase(a) == [i \in DOMAIN a |-> Log10(a[i])]

\* np.sum of a row
RECURSIVE Sum(_)
Sum(row) == IF row = <<>> THEN 0 ELSE Add(Head(row), Sum(Tail(row)))

\* np.mean of a row
Mean(row) ==
    IF row = <<>> THEN NaN
    ELSE The({IF IsFinite(total) THEN RoundDiv(total, Len(row)) ELSE total :
              total \in {Sum(row)}})

\* the sum of the squares of the integers of a row
RECURSIVE SumSquares(_)
SumSquares(row) ==
    IF row = <<>> THEN 0 ELSE Head(row) * Head(row) + SumSquares(Tail(row))

\* np.std(ddof=1) of a row: sqrt(sum((x - mean)^2) / (n - 1)), which is
\* sqrt((n * sum(x^2) - sum(x)^2) / (n * (n - 1)))
Std(row) ==
    IF Len(row) <= 1 \/ \E i \in DOMAIN row : ~IsFinite(row[i]) THEN NaN
    ELSE The({RoundSqrt(Len(row) * SumSquares(row) - total * total,
                        Len(row) * (Len(row) - 1),
                        (CHOOSE x \in Range(row) : \A y \in Range(row) : y <= x)
                          - (CHOOSE x \in Range(row) : \A y \in Range(row) : x <= y)) :
              total \in {Sum(row)}})

(***************************************************************************)
(* seqspace.utils, as far as the map uses it.                              *)
(***************************************************************************)
hamming_distance(a, b) == Cardinality({i \in DOMAIN a : a[i] # b[i]})

\* the first genotype at the largest distance from the reference
farthest_genotype(reference, genotypes) ==
    LET best == CHOOSE i \in DOMAIN genotypes :
            /\ \A j \in DOMAIN genotypes :
                 hamming_distance(genotypes[j], reference)
                    <= hamming_distance(genotypes[i], reference)
            /\ \A j \in 1..(i-1) :
                 hamming_distance(genotypes[j], reference)
                    < hamming_distance(genotypes[i], reference)
    IN genotypes[best]

\* {site: [wildtype letter, mutant letter]} for the sites that differ; a
\* site that does not differ has no alphabet (None), written <<>>
binary_mutations_map(wildtype, mutant) ==
    [site \in 0..(Len(wildtype)-1) |->
        IF wildtype[site+1] = mutant[site+1] THEN <<>>
        ELSE <<wildtype[site+1], mutant[site+1]>>]

\* the letters a site may hold: its alphabet, or the wildtype letter alone
SiteAlphabet(wildtype, mutations, site) ==
    IF site \in DOMAIN mutations /\ mutations[site] # <<>>
    THEN mutations[site]
    ELSE <<wildtype[site+1]>>

\* encode_mutations + construct_genotypes: every genotype the alphabets
\* allow, as a list; the first site varies slowest
RECURSIVE construct_from(_, _, _)
construct_from(wildtype, mutations, site) ==
    IF site = Len(wildtype) THEN << <<>> >>
    ELSE LET rest == construct_from(wildtype, mutations, site + 1)
             alpha == SiteAlphabet(wildtype, mutations, site)
             RECURSIVE Over(_)
             Over(k) == IF k > Len(alpha) THEN <<>>
                        ELSE [r \in DOMAIN rest |-> <<alpha[k]>> \o rest[r]]
                             \o Over(k + 1)
         IN Over(1)

construct_genotypes(wildtype, mutations) == construct_from(wildtype, mutations, 0)

(***************************************************************************)
(* BaseMap.                                                                *)
(***************************************************************************)
\* OrderedDict([(keys[i], values[i]) for i in range(len(keys))]): a later
\* occurrence of a key overwrites an earlier one.  Defined when values is
\* at least as long as keys (IndexError otherwise).
MapDefined(keys, values) == Len(keys) <= Len(values)

_map(keys, values) ==
    [k \in Range(keys) |->
        values[CHOOSE i \in DOMAIN keys :
                  /\ keys[i] = k
                  /\ \A j \in DOMAIN keys : keys[j] = k => j <= i]]

\* self.map(attr1, attr2) on the values of the two attributes: the lookup
\* from the elements of the first to the elements of the second
map(keys, values) == _map(keys, values)

\* mutant of _if_dict: every element is looked up under the first genotype
if_dict_first_key(m, dictionary) == [i \in 1..m.n |-> dictionary[m.genotypes[1]]]

\* elements[i] = dictionary[self._genotypes[i]] for i in range(self._n)
IfDictDefined(m, dictionary) ==
    \A i \in 1..m.n : i \in DOMAIN m.genotypes /\ m.genotypes[i] \in DOMAIN dictionary

_if_dict(m, dictionary) == [i \in 1..m.n |-> dictionary[m.genotypes[i]]]

(***************************************************************************)
(* The external views, as far as the map reads and writes them.            *)
(***************************************************************************)
AbsentStd ==
    [exists |-> FALSE, phenotypes |-> <<>>, stdeviations |-> <<>>,
     log_transform |-> FALSE]

AbsentErr ==
    [exists |-> FALSE, phenotypes |-> <<>>, stdeviations |-> <<>>,
     log_transform |-> FALSE, n_replicates |-> 0]

StandardDeviationMap(phenotypes, stdeviations, log_transform) ==
    [exists |-> TRUE, phenotypes |-> phenotypes, stdeviations |-> stdeviations,
     log_transform |-> log_transform]

StandardErrorMap(phenotypes, stdeviations, log_transform, n_replicates) ==
    [exists |-> TRUE, phenotypes |-> phenotypes, stdeviations |-> stdeviations,
     log_transform |-> log_transform, n_replicates |-> n_replicates]

\* view.upper[index] is defined: the bound array of a view is aligned to the
\* phenotypes the view was given and holds one bound per standard deviation
UpperDefined(view, index) ==
    /\ view.exists
    /\ (index + 1) \in DOMAIN view.phenotypes
    /\ (index + 1) \in DOMAIN view.stdeviations

\* the standard error of a mean of n_replicates measurements:
\* stdeviation / sqrt(n_replicates)
sterror(stdeviation, n_replicates) ==
    IF n_replicates < 1 THEN NaN
    ELSE IF ~IsFinite(stdeviation) THEN stdeviation
    ELSE IF stdeviation < 0
    THEN 0 - RoundSqrt(stdeviation * stdeviation, n_replicates, 0 - stdeviation)
    ELSE RoundSqrt(stdeviation * stdeviation, n_replicates, stdeviation)

\* StandardErrorMap.upper[index].  A view built with log_transform = False
\* reports the standard error itself; the bound of a log-scaled view is not
\* fixed by the interface and is the value log_bound
upper(view, index, log_bound) ==
    IF view.log_transform THEN log_bound
    ELSE sterror(view.stdeviations[index + 1], view.n_replicates)

AbsentRaw ==
    [exists |-> FALSE, genotypes |-> <<>>, phenotypes |-> <<>>,
     stdeviations |-> AbsentArr, std |-> AbsentStd, err |-> AbsentErr]

\* a fresh RawMap: none of the attributes the map writes is set yet
RawMap == [AbsentRaw EXCEPT !.exists = TRUE]

AbsentBinary ==
    [exists |-> FALSE, phenotypes |-> <<>>, std |-> AbsentStd, err |-> AbsentErr]

\* a fresh MutationMap
MutationMap ==
    [mutations |-> <<>>, hasWildtype |-> FALSE, wildtype |-> <<>>,
     hasN |-> FALSE, n |-> 0]

\* BinaryMap(gpm): the binary view of the map, and the genotypes of the
\* complete space that the map does not hold
BinaryMap(m) ==
    The({[m EXCEPT
            !.Binary = [exists |-> TRUE, phenotypes |-> m.phenotypes,
                        std |-> AbsentStd, err |-> AbsentErr],
            !.missing_genotypes =
                SelectIn(complete, Range(complete) \ Range(m.genotypes))] :
         complete \in {construct_genotypes(m.wildtype, m.mutations)}})

(***************************************************************************)
(* The map object.  Ok(m) / Raise(e, m): how a call ended and the object   *)
(* it left behind.                                                         *)
(***************************************************************************)
Ok(m) == [ok |-> TRUE, error |-> "", m |-> m]
Raise(e, m) == [ok |-> FALSE, error |-> e, m |-> m]

\* the object before __init__ has set anything
Blank ==
    [mutations |-> <<>>, Mutations |-> MutationMap, wildtype |-> <<>>,
     genotypes |-> <<>>, n |-> 0, length |-> 0, indices |-> <<>>,
     log_transform |-> FALSE, phenotypes |-> <<>>, n_replicates |-> 0,
     Raw |-> AbsentRaw, Binary |-> AbsentBinary, missing_genotypes |-> <<>>,
     stdeviations |-> AbsentArr, std |-> AbsentStd, err |-> AbsentErr]

\* the complete_genotypes property
complete_genotypes(m) == m.genotypes \o m.missing_genotypes

\* @log_transform.setter
set_log_transform(m, boolean) == Ok([m EXCEPT !.log_transform = boolean])

\* @genotypes.setter; on an empty list len(genotypes[0]) raises after _n
\* has been assigned
set_genotypes(m, genotypes) ==
    IF Len(genotypes) = 0
    THEN Raise("IndexError", [m EXCEPT !.n = 0])
    ELSE Ok([m EXCEPT !.n = Len(genotypes),
                      !.length = Len(genotypes[1]),
                      !.genotypes = genotypes,
                      !.indices = [i \in 1..Len(genotypes) |-> i - 1]])

\* @wildtype.setter
set_wildtype(m, wildtype) ==
    Ok([m EXCEPT !.wildtype = wildtype,
                 !.Mutations.wildtype = wildtype,
                 !.Mutations.hasWildtype = TRUE])

\* @mutations.setter; arg = [isDict, d]
set_mutations(m, arg) ==
    IF ~arg.isDict
    THEN Raise("TypeError", m)
    ELSE Ok([m EXCEPT !.mutations = arg.d,
                      !.Mutations = [MutationMap EXCEPT
                                        !.mutations = arg.d,
                                        !.hasN = TRUE,
                                        !.n = Cardinality(DOMAIN arg.d)]])

\* mutant of transformed: the transform is applied whatever log_transform is
transformed_always(m, given) == logbase(given)

\* what is stored for the phenotypes given: logbase of them when
\* log_transform is True
transformed(m, given) == IF m.log_transform THEN logbase(given) ELSE given

\* mutant of set_phenotypes: an existing Binary view is not refreshed
set_phenotypes_stale_binary(m, arg) ==
    IF arg.isDict /\ ~IfDictDefined(m, arg.dict)
    THEN Raise("KeyError", m)
    ELSE IF ~arg.isDict /\ Len(arg.arr) # Len(m.genotypes)
    THEN Raise("ValueError", m)
    ELSE Ok([m EXCEPT !.phenotypes =
                transformed(m, IF arg.isDict THEN _if_dict(m, arg.dict)
                               ELSE arg.arr)])

\* @phenotypes.setter; arg = [isDict, arr, dict]
set_phenotypes(m, arg) ==
    IF arg.isDict /\ ~IfDictDefined(m, arg.dict)
    THEN Raise("KeyError", m)
    ELSE IF ~arg.isDict /\ Len(arg.arr) # Len(m.genotypes)
    THEN Raise("ValueError", m)
    ELSE
      LET given == IF arg.isDict THEN _if_dict(m, arg.dict) ELSE arg.arr
          m1 == IF m.log_transform
                THEN [m EXCEPT !.Raw = [RawMap EXCEPT
                                           !.genotypes = m.genotypes,
                                           !.phenotypes = given]]
                ELSE m
          stored == transformed(m, given)
          m2 == [m1 EXCEPT !.phenotypes = stored]
      IN Ok(IF m2.Binary.exists
            THEN [m2 EXCEPT !.Binary.phenotypes = stored]
            ELSE m2)

\* @n_replicates.setter
set_n_replicates(m, n_replicates) == Ok([m EXCEPT !.n_replicates = n_replicates])

\* _construct_errors(stdeviations); stdeviations is NoneArr or Arr(a)
_construct_errors(m, stdeviations) ==
    IF stdeviations.tag = "array"
    THEN
      LET sd == stdeviations.v
          m1 == [m EXCEPT !.stdeviations = stdeviations]
      IN IF m1.log_transform
         THEN IF ~m1.Raw.exists
              THEN Raise("Exception", m1)
              ELSE
                LET m2 == [m1 EXCEPT
                      !.Raw.stdeviations = stdeviations,
                      !.Raw.std = StandardDeviationMap(m1.phenotypes, sd, FALSE),
                      !.Raw.err = StandardErrorMap(m1.phenotypes, sd, FALSE,
                                                   m1.n_replicates),
                      !.std = StandardDeviationMap(m1.Raw.phenotypes, sd,
                                                   m1.log_transform),
                      !.err = StandardErrorMap(m1.Raw.phenotypes, sd,
                                               m1.log_transform, m1.n_replicates)]
                IN Ok(IF m2.Binary.exists
                      THEN [m2 EXCEPT
                              !.Binary.std = StandardDeviationMap(
                                  m1.Raw.phenotypes, sd, m1.log_transform),
                              !.Binary.err = StandardErrorMap(
                                  m1.Raw.phenotypes, sd, m1.log_transform,
                                  m1.n_replicates)]
                      ELSE m2)
         ELSE
           LET m2 == [m1 EXCEPT
                 !.std = StandardDeviationMap(m1.phenotypes, sd, m1.log_transform),
                 !.err = StandardErrorMap(m1.phenotypes, sd, m1.log_transform,
                                          m1.n_replicates)]
           IN Ok(IF m2.Binary.exists
                 THEN [m2 EXCEPT
                         !.Binary.std = StandardDeviationMap(
                             m1.phenotypes, sd, m1.log_transform),
                         !.Binary.err = StandardErrorMap(
                             m1.phenotypes, sd, m1.log_transform, m1.n_replicates)]
                 ELSE m2)
    ELSE
      IF m.log_transform
      THEN IF ~m.Raw.exists
           THEN Raise("AttributeError", m)
           ELSE Ok([m EXCEPT !.Raw.stdeviations = NoneArr,
                             !.stdeviations = NoneArr])
      ELSE Ok([m EXCEPT !.stdeviations = NoneArr])

\* A key of a mutations dict is a site number k, or its decimal string
\* (what a JSON object holds), written -(k + 1): str(0) is -1, str(1) is -2.
str(site) == 0 - (site + 1)

\* int(key)
int(key) == IF key < 0 THEN 0 - (key + 1) ELSE key

\* dict([(int(key), val) for key, val in mutations.items()]) for the dict d
\* whose keys were inserted in the order `order`: of the keys with the same
\* int, the one inserted last gives the value
int_keys(d, order) ==
    [site \in {int(key) : key \in DOMAIN d} |->
        d[order[CHOOSE i \in DOMAIN order :
                   /\ int(order[i]) = site
                   /\ \A j \in DOMAIN order : int(order[j]) = site => j <= i]]]

\* the mutations argument for a dict the map itself holds: its keys are site
\* numbers, no two with the same int, so the order of insertion does not
\* change what int_keys returns; the sites are listed in ascending order
Given(d) == [given |-> TRUE, d |-> d, order |-> SortedSeq(DOMAIN d)]

\* hasattr(logbase, '__call__'): np.log10 is the one function of the model,
\* every other value (a number, a string) is not callable
Callable(logbase_arg) == logbase_arg = "np.log10"

\* __init__(wildtype, genotypes, phenotypes, stdeviations, log_transform,
\*          mutations, n_replicates, logbase); mutations = [given, d, order].
\* The statements run in order on the object the one before left, and the
\* first one to raise ends the call.
GenotypePhenotypeMap(wildtype, genotypes, phenotypes, stdeviations, log_transform, mutations, n_replicates, logbase_arg) ==
    IF ~mutations.given /\ Len(genotypes) = 0
    THEN Raise("UnboundLocalError", Blank)
    ELSE
      LET statement(k, m, muts) ==
              CASE k = 1 -> set_mutations(m, [isDict |-> TRUE,
                                              d |-> IF mutations.given
                                                    THEN int_keys(mutations.d,
                                                                  mutations.order)
                                                    ELSE muts])
                [] k = 2 -> IF Callable(logbase_arg) THEN Ok(m)
                            ELSE Raise("Exception", m)
                [] k = 3 -> set_wildtype(m, wildtype)
                [] k = 4 -> set_genotypes(m, genotypes)
                [] k = 5 -> set_log_transform(m, log_transform)
                [] k = 6 -> set_phenotypes(m, [isDict |-> FALSE,
                                               arr |-> phenotypes,
                                               dict |-> <<>>])
                [] k = 7 -> set_n_replicates(m, n_replicates)
                [] k = 8 -> Ok([m EXCEPT !.Mutations =
                                   [MutationMap EXCEPT !.mutations = muts,
                                                       !.wildtype = wildtype,
                                                       !.hasWildtype = TRUE]])
                [] k = 9 -> Ok(BinaryMap(m))
                [] k = 10 -> _construct_errors(m, stdeviations)
          RECURSIVE run(_, _, _)
          run(k, r, muts) ==
              IF ~r.ok \/ k > 10 THEN r
              ELSE The({run(j, next, muts) :
                          j \in {k + 1}, next \in {statement(k, r.m, muts)}})
      IN The({run(1, Ok(Blank), muts) :
                muts \in {IF mutations.given THEN mutations.d
                          ELSE binary_mutations_map(
                                   wildtype,
                                   farthest_genotype(wildtype, genotypes))}})

\* from_json(filename, **kwargs) on the record `data` that json.load returns
\* and the keyword arguments `kwargs`, both records; a keyword that
\* __init__ does not take is a TypeError of the call
Options == {"stdeviations", "log_transform", "mutations", "n_replicates", "logbase"}

DefaultOptions ==
    [stdeviations |-> NoneArr, log_transform |-> FALSE,
     mutations |-> [given |-> FALSE, d |-> <<>>, order |-> <<>>],
     n_replicates |-> 1, logbase |-> "np.log10"]

from_json(data, kwargs) ==
    IF \E arg \in {"wildtype", "genotypes", "phenotypes"} : arg \notin DOMAIN data
    THEN Raise("LoadingException", Blank)
    ELSE IF ~(DOMAIN kwargs \subseteq Options)
    THEN Raise("TypeError", Blank)
    ELSE LET option(key) == IF key \in DOMAIN kwargs THEN kwargs[key]
                            ELSE IF key \in DOMAIN data THEN data[key]
                            ELSE DefaultOptions[key]
         IN GenotypePhenotypeMap(data.wildtype, data.genotypes, data.phenotypes,
                                 option("stdeviations"), option("log_transform"),
                                 option("mutations"), option("n_replicates"),
                                 option("logbase"))

(***************************************************************************)
(* Sample and sample().                                                    *)
(***************************************************************************)
\* Sample.__init__(gpm, replicate_genotypes, replicate_phenotypes, indices)
\* on two-dimensional arrays (a sequence of rows, n_samples >= 1 columns);
\* self._gpm is the map the caller holds
Sample(replicate_genotypes, replicate_phenotypes, indices) ==
    [replicate_genotypes |-> replicate_genotypes,
     replicate_phenotypes |-> replicate_phenotypes,
     genotypes |-> [i \in DOMAIN replicate_genotypes |-> replicate_genotypes[i][1]],
     phenotypes |-> [i \in DOMAIN replicate_phenotypes |->
                        Mean(replicate_phenotypes[i])],
     stdeviations |-> [i \in DOMAIN replicate_phenotypes |->
                          Std(replicate_phenotypes[i])],
     indices |-> indices]

NoSample == Sample(<<>>, <<>>, <<>>)

Returned(s) == [ok |-> TRUE, error |-> "", sample |-> s]
Failed(e) == [ok |-> FALSE, error |-> e, sample |-> NoSample]

\* int(fraction * self.n) for fraction = <<numerator, denominator>> >= 0
frac_length(m, fraction) == (fraction[1] * m.n) \div fraction[2]

\* the body of the try block runs through for every selected index
CanDraw(m, random_indices) ==
    \A i \in DOMAIN random_indices :
        LET index == random_indices[i]
        IN /\ (index + 1) \in DOMAIN m.genotypes
           /\ IF m.log_transform
              THEN /\ m.Raw.exists
                   /\ UpperDefined(m.Raw.err, index)
                   /\ (index + 1) \in DOMAIN m.Raw.phenotypes
              ELSE /\ UpperDefined(m.err, index)
                   /\ (index + 1) \in DOMAIN m.phenotypes

\* stdevs[index] * np.random.randn(n_samples)[j] + centre[index] for the
\* i-th selected index: noise[i] is what randn returns in the i-th iteration
draw(m, index, z, log_bound) ==
    IF m.log_transform
    THEN Add(Mul(upper(m.Raw.err, index, log_bound), z), m.Raw.phenotypes[index + 1])
    ELSE Add(Mul(upper(m.err, index, log_bound), z), m.phenotypes[index + 1])

\* from "initialize arrays" to the return, for the selected indices
draw_samples(m, n_samples, random_indices, noise, log_bound) ==
    IF CanDraw(m, random_indices)
    THEN Returned(Sample(
            [i \in DOMAIN random_indices |->
                [j \in 1..n_samples |-> m.genotypes[random_indices[i] + 1]]],
            [i \in DOMAIN random_indices |->
                [j \in 1..n_samples |->
                    draw(m, random_indices[i], noise[i][j], log_bound)]],
            random_indices))
    ELSE IF n_samples # 1
    THEN Failed("Exception")
    \* the one-dimensional arrays of the fallback: Sample.__init__ indexes
    \* replicate_genotypes[:,0]
    ELSE Failed("IndexError")

\* random_indices[-1] = self.n-1
force_derived(m, random_indices) ==
    [random_indices EXCEPT ![Len(random_indices)] = m.n - 1]

\* sample(n_samples, genotypes, fraction, derived); genotypes = [given, v];
\* chosen: the set np.random.choice draws, noise: the values randn yields,
\* log_bound: the bound a log-scaled error view reports,
\* strict: whether this numpy refuses to choose from an empty range
sample(m, n_samples, genotypes, fraction, derived, chosen, noise, log_bound, strict) ==
    IF ~genotypes.given
    THEN IF fraction[1] < 0 \/ fraction[1] > fraction[2]
         THEN Failed("Exception")
         ELSE IF m.n = 0 /\ strict
         THEN Failed("ValueError")
         ELSE The({IF derived
                   THEN IF Len(sorted) = 0
                        THEN Failed("IndexError")
                        ELSE The({draw_samples(m, n_samples, random_indices,
                                               noise, log_bound) :
                                  random_indices \in {force_derived(m, sorted)}})
                   ELSE draw_samples(m, n_samples, sorted, noise, log_bound) :
                   sorted \in {SortedSeq(chosen)}})
    ELSE IF ~MapDefined(m.genotypes, m.indices)
    THEN Failed("IndexError")
    ELSE The({IF \E i \in DOMAIN genotypes.v : genotypes.v[i] \notin DOMAIN mapping
              THEN Failed("KeyError")
              ELSE The({draw_samples(m, n_samples, random_indices, noise,
                                     log_bound) :
                        random_indices \in
                            {[i \in DOMAIN genotypes.v |-> mapping[genotypes.v[i]]]}}) :
              mapping \in {map(m.genotypes, m.indices)}})

\* Sample.get_gpm() on the Sample smp taken from the map m
get_gpm(m, smp) ==
    GenotypePhenotypeMap(m.wildtype, smp.genotypes, smp.phenotypes,
                         Arr(smp.stdeviations), m.log_transform,
                         Given(m.mutations),
                         m.n_replicates, "np.log10")

(***************************************************************************)
(* subspace().                                                             *)
(***************************************************************************)
\* subspace(genotype1, genotype2)
subspace(m, genotype1, genotype2) ==
    LET values == IF m.log_transform THEN m.Raw.phenotypes ELSE m.phenotypes
        stdeviations == IF m.log_transform THEN m.Raw.stdeviations
                        ELSE m.stdeviations
    IN IF m.log_transform /\ ~m.Raw.exists
       THEN Raise("AttributeError", Blank)
       ELSE IF ~MapDefined(m.genotypes, values)
       THEN Raise("IndexError", Blank)
       ELSE IF stdeviations.tag = "absent"
       THEN Raise("AttributeError", Blank)
       ELSE The({The({IF \E i \in DOMAIN genotypes :
                            genotypes[i] \notin DOMAIN mapping
                      THEN Raise("KeyError", Blank)
                      ELSE The({GenotypePhenotypeMap(
                                    genotype1, genotypes, phenotypes,
                                    stdeviations, m.log_transform,
                                    Given(mutations),
                                    m.n_replicates, "np.log10") :
                                phenotypes \in {[i \in DOMAIN genotypes |->
                                                    mapping[genotypes[i]]]}}) :
                      genotypes \in {construct_genotypes(genotype1, mutations)},
                      mapping \in {map(m.genotypes, values)}}) :
                 mutations \in {binary_mutations_map(genotype1, genotype2)}})

(***************************************************************************)
(* The inputs the model draws from.                                        *)
(***************************************************************************)
AA == <<"A", "A">>
AT == <<"A", "T">>
TA == <<"T", "A">>
TT == <<"T", "T">>

Universe == {AA, AT, TA, TT}

\* a complete space, an incomplete one whose farthest genotype spans it, and
\* one whose farthest genotype does not
GenotypeLists == {<<AA, AT, TA, TT>>, <<AA, TT>>, <<AA, AT, TA>>}

\* k raw phenotypes, 10 at one position and 1 elsewhere
OneHot(k, hot) == [i \in 1..k |-> IF i = hot THEN 10 * Unit ELSE Unit]

\* the arrays later assigned to a map of k genotypes: 10 for the first
\* genotype, either k or k + 1 long
AssignedArrays(k) == {OneHot(k, 1), OneHot(k + 1, 1)}

\* the endpoints subspace() is called with: equal, one and two sites apart,
\* from either end, and two that are not the wildtype
Endpoints == {<<AA, AA>>, <<AA, AT>>, <<AA, TT>>, <<TT, AA>>, <<AT, TA>>}

\* genotype-keyed phenotypes; the second one lacks keys
PhenotypeDicts ==
    {[g \in Universe |-> IF g = AT THEN Unit ELSE 10 * Unit],
     [g \in {AA} |-> 10 * Unit]}

\* standard deviations 1, 2, .., k: one value per genotype
StdArray(k) == [i \in 1..k |-> i * Unit]

FullBinary == [site \in 0..1 |-> <<"A", "T">>]

\* {'0': ['T','A'], 0: ['A','T'], 1: ['A','T']}
BothKeys ==
    [key \in {str(0), 0, 1} |-> IF key = str(0) THEN <<"T", "A">> ELSE <<"A", "T">>]

\* fraction as <<numerator, denominator>>: -0.25, 0, 0.75, 1.0, 1.25
Fractions == {<<-1, 4>>, <<0, 1>>, <<3, 4>>, <<1, 1>>, <<5, 4>>}

\* n_samples: one sample, and the largest number of samples
SampleCounts == {1, MaxSamples}

SampleLists == {<<TT, AA>>, <<AT>>}

\* what np.random.randn yields, noise[i][j] being the j-th value of the
\* i-th call: no noise at all, or values that differ within a call and from
\* one call to the next (1.0, -1.0, 0.0, ..)
Noises ==
    {[i \in 1..Cardinality(Universe) |-> [j \in 1..MaxSamples |-> 0]],
     [i \in 1..Cardinality(Universe) |->
         [j \in 1..MaxSamples |-> (((i + j) % 3) - 1) * Unit]]}

\* the error view sample() reads
ErrorView(m) == IF m.log_transform THEN m.Raw.err ELSE m.err

\* randn is called once the error view has given a bound: without a view
\* no value is drawn
NoisesOf(m) ==
    IF ErrorView(m).exists THEN Noises
    ELSE {[i \in 1..Cardinality(Universe) |-> [j \in 1..MaxSamples |-> 0]]}

\* the bounds a log-scaled error view may report, when sample() reads one
LogBounds(m) ==
    IF ~m.log_transform /\ m.err.exists /\ m.err.log_transform
    THEN {0, Unit}
    ELSE {0}

\* the records json.load returns: complete, with string keys in mutations;
\* without phenotypes; with a logbase, which no JSON value makes callable
JsonRecords ==
    {[wildtype |-> AA, genotypes |-> <<AA, TT>>, phenotypes |-> OneHot(2, 2),
      stdeviations |-> Arr(StdArray(2)),
      mutations |-> [given |-> TRUE,
                     d |-> [key \in {str(0), str(1)} |-> <<"A", "T">>],
                     order |-> <<str(0), str(1)>>]],
     [wildtype |-> AA, genotypes |-> <<AA, TT>>],
     [wildtype |-> AA, genotypes |-> <<AA, TT>>, phenotypes |-> OneHot(2, 2),
      logbase |-> "10"]}

\* the keyword arguments from_json is called with
Keywords ==
    {[key \in {} |-> 0], [logbase |-> "np.log10"],
     [log_transform |-> TRUE, n_replicates |-> MaxReplicates]}

(***************************************************************************)
(* The state machine: the map after __init__, then setter calls (at most   *)
(* MaxOps of them), sample() and subspace() in any order.  `result` is     *)
(* the last call, how it ended and what it returned.                       *)
(***************************************************************************)
\* the arguments __init__ is called with
Args(g, p, sd, lt, mu, nr, lb) ==
    [genotypes |-> g, phenotypes |-> p, stdeviations |-> sd,
     log_transform |-> lt, mutations |-> mu, n_replicates |-> nr,
     logbase |-> lb]

NotGiven == [given |-> FALSE, d |-> <<>>, order |-> <<>>]

ConstructorArgs ==
    \* every genotype list, on either scale, without stdeviations and with
    \* one per genotype
    {Args(g, OneHot(Len(g), Len(g)),
          IF measured THEN Arr(StdArray(Len(g))) ELSE NoneArr, lt, NotGiven, 1,
          "np.log10") :
        g \in GenotypeLists, lt \in BOOLEAN, measured \in BOOLEAN}
    \* the incomplete list whose farthest genotype does not span the space,
    \* with the mutations given
    \cup {Args(<<AA, AT, TA>>, OneHot(3, 3), sd, FALSE,
               Given(FullBinary), 1, "np.log10") :
            sd \in {NoneArr, Arr(StdArray(3))}}
    \* mutations with site 0 under both the key '0' and the key 0, in either
    \* order
    \cup {Args(<<AA, TT>>, OneHot(2, 2), NoneArr, FALSE,
               [given |-> TRUE, d |-> BothKeys, order |-> order], 1,
               "np.log10") :
            order \in {<<str(0), 0, 1>>, <<0, str(0), 1>>}}
    \* fewer and more stdeviations than genotypes
    \cup {Args(g, OneHot(Len(g), Len(g)), Arr(StdArray(6 - Len(g))), FALSE,
               NotGiven, 1, "np.log10") :
            g \in {<<AA, AT, TA, TT>>, <<AA, TT>>}}
    \* more than one replicate
    \cup {Args(<<AA, AT, TA, TT>>, OneHot(4, 4), Arr(StdArray(4)), TRUE,
               NotGiven, MaxReplicates, "np.log10")}
    \* fewer phenotypes than genotypes; a logbase that is not callable
    \cup {Args(<<AA, AT, TA, TT>>, OneHot(2, 2), NoneArr, FALSE, NotGiven, 1,
               "np.log10"),
          Args(<<AA, AT, TA, TT>>, OneHot(4, 4), NoneArr, FALSE, NotGiven, 1,
               "10")}

Constructions ==
    {GenotypePhenotypeMap(AA, a.genotypes, a.phenotypes, a.stdeviations,
                          a.log_transform, a.mutations, a.n_replicates,
                          a.logbase) : a \in ConstructorArgs}

Loads == {from_json(data, kwargs) : data \in JsonRecords, kwargs \in Keywords}

Init ==
    /\ \E c \in Constructions \cup Loads :
          /\ c.ok
          /\ gpm = c.m
    /\ result = [op |-> "__init__", ok |-> TRUE, error |-> ""]
    /\ nops = 0

\* sample() and subspace() leave the map as it is: what can follow them is
\* what could follow the state they were called in, so they are explored as
\* leaves
AtRest == result.op \notin {"sample", "subspace"}

Setter(name, r) ==
    /\ AtRest
    /\ nops < MaxOps
    /\ nops' = nops + 1
    /\ \E done \in {r} :
          /\ gpm' = done.m
          /\ result' = [op |-> name, ok |-> done.ok, error |-> done.error]

SetGenotypes ==
    \E g \in {<<AA, AT, TA, TT>>, <<AA, TT>>, <<>>} :
        Setter("genotypes", set_genotypes(gpm, g))

SetWildtype ==
    \E w \in {TT} : Setter("wildtype", set_wildtype(gpm, w))

SetMutations ==
    \E arg \in {[isDict |-> TRUE, d |-> FullBinary], [isDict |-> FALSE, d |-> <<>>]} :
        Setter("mutations", set_mutations(gpm, arg))

SetLogTransform ==
    \E b \in BOOLEAN : Setter("log_transform", set_log_transform(gpm, b))

SetNReplicates ==
    \E k \in {MaxReplicates} : Setter("n_replicates", set_n_replicates(gpm, k))

\* gpm.phenotypes = <array>, <dict>, or gpm.phenotypes = gpm.phenotypes
\* (own; again: for the second time in a row)
SetPhenotypes ==
    /\ AtRest
    /\ nops < MaxOps
    /\ \E arg \in
            {[isDict |-> FALSE, arr |-> a, dict |-> <<>>, own |-> FALSE] :
                a \in AssignedArrays(Len(gpm.genotypes))}
            \cup {[isDict |-> TRUE, arr |-> <<>>, dict |-> d, own |-> FALSE] :
                d \in PhenotypeDicts}
            \cup {[isDict |-> FALSE, arr |-> gpm.phenotypes, dict |-> <<>>,
                   own |-> TRUE]} :
          \E r \in {set_phenotypes(gpm, arg)} :
             /\ gpm' = r.m
             /\ result' = [op |-> "phenotypes", ok |-> r.ok, error |-> r.error,
                           arg |-> arg,
                           again |-> /\ arg.own
                                     /\ result.op = "phenotypes"
                                     /\ result.arg.own]
    /\ nops' = nops + 1

\* what np.random.choice(range(n), size=frac_length, replace=False) can draw
Choices(m, fraction) ==
    IF fraction[1] < 0 \/ fraction[1] > fraction[2] THEN {{}}
    ELSE {c \in SUBSET (0..(m.n - 1)) : Cardinality(c) = frac_length(m, fraction)}

SampleResult(r, n_samples, genotypes, fraction, derived) ==
    [op |-> "sample", ok |-> r.ok, error |-> r.error,
     n_samples |-> n_samples, genotypes |-> genotypes,
     fraction |-> fraction, derived |-> derived, sample |-> r.sample]

\* sample(n_samples, fraction=.., derived=..)
SampleFraction ==
    /\ AtRest
    /\ \E n_samples \in SampleCounts, derived \in BOOLEAN,
          noise \in NoisesOf(gpm), log_bound \in LogBounds(gpm),
          fraction \in Fractions :
          \E chosen \in Choices(gpm, fraction),
             strict \in IF gpm.n = 0 THEN BOOLEAN ELSE {FALSE} :
             \E none \in {[given |-> FALSE, v |-> <<>>]} :
             \E r \in {sample(gpm, n_samples, none, fraction, derived, chosen,
                              noise, log_bound, strict)} :
                result' = SampleResult(r, n_samples, none, fraction, derived)
    /\ UNCHANGED <<gpm, nops>>

\* sample(n_samples, genotypes=[..], derived=..), fraction left at 1.0
SampleGenotypes ==
    /\ AtRest
    /\ \E n_samples \in SampleCounts, derived \in BOOLEAN,
          noise \in NoisesOf(gpm), log_bound \in LogBounds(gpm),
          l \in SampleLists :
          \E given \in {[given |-> TRUE, v |-> l]} :
          \E r \in {sample(gpm, n_samples, given, <<1, 1>>, derived, {}, noise,
                           log_bound, FALSE)} :
             result' = SampleResult(r, n_samples, given, <<1, 1>>, derived)
    /\ UNCHANGED <<gpm, nops>>

DoSubspace ==
    /\ AtRest
    /\ \E e \in Endpoints :
          \E r \in {subspace(gpm, e[1], e[2])} :
             result' = [op |-> "subspace", ok |-> r.ok, error |-> r.error,
                        genotype1 |-> e[1], genotype2 |-> e[2], child |-> r.m]
    /\ UNCHANGED <<gpm, nops>>

Next ==
    \/ SetGenotypes
    \/ SetWildtype
    \/ SetMutations
    \/ SetLogTransform
    \/ SetNReplicates
    \/ SetPhenotypes
    \/ SampleFraction
    \/ SampleGenotypes
    \/ DoSubspace

Spec == Init /\ [][Next]_vars

\* construction followed by log_transform and phenotypes assignments only
NextTransform ==
    \/ SetLogTransform
    \/ SetPhenotypes

SpecTransform == Init /\ [][NextTransform]_vars

\* construction followed by the assignments the uncertainty views depend on
NextUncertainty ==
    \/ SetLogTransform
    \/ SetPhenotypes
    \/ SetNReplicates

SpecUncertainty == Init /\ [][NextUncertainty]_vars

\* sample.get_gpm() on the Sample the last call returned
GetGpm ==
    /\ result.op = "sample"
    /\ result.ok
    /\ \E r \in {get_gpm(gpm, result.sample)} :
          result' = [op |-> "get_gpm", ok |-> r.ok, error |-> r.error,
                     sample |-> result.sample, child |-> r.m]
    /\ UNCHANGED <<gpm, nops>>

\* the calls that produce a map from the constructed one: subspace(), and
\* sample() followed by get_gpm()
NextProduced ==
    \/ SampleFraction
    \/ SampleGenotypes
    \/ GetGpm
    \/ DoSubspace

SpecProduced == Init /\ [][NextProduced]_vars

(***************************************************************************)
(* Properties.                                                             *)
(***************************************************************************)
IndexOf(s, x) == CHOOSE i \in DOMAIN s : s[i] = x

\* the map was built by __init__ and no setter has been called since
Constructed == nops = 0

\* C1: in every state reached by construction and setter calls,
\* len(genotypes) = len(phenotypes) = n and indices = 0..n-1.
C1_LengthsAgree ==
    /\ Len(gpm.genotypes) = gpm.n
    /\ Len(gpm.phenotypes) = gpm.n
    /\ gpm.indices = [i \in 1..gpm.n |-> i - 1]

\* C2: for every constructed map, complete_genotypes has
\* len(genotypes) + len(missing_genotypes) entries, no duplicates, and is
\* exactly the set of genotypes that the mutations allow.
C2_CompleteSpace ==
    Constructed =>
        LET complete == complete_genotypes(gpm)
        IN /\ Len(complete) = Len(gpm.genotypes) + Len(gpm.missing_genotypes)
           /\ NoDuplicates(complete)
           /\ Range(complete)
                 = Range(construct_genotypes(gpm.wildtype, gpm.mutations))

\* C3: whenever subspace(g1, g2) returns, for g1 and g2 differing at k sites,
\* the map returned has 2**k genotypes, wildtype g1, and at each genotype the
\* phenotype the parent map has at that genotype.
C3_Subspace ==
    (result.op = "subspace" /\ result.ok) =>
        LET child == result.child
            k == hamming_distance(result.genotype1, result.genotype2)
        IN /\ child.n = 2^k
           /\ Len(child.genotypes) = 2^k
           /\ Len(child.phenotypes) = 2^k
           /\ child.wildtype = result.genotype1
           /\ \A i \in DOMAIN child.genotypes :
                 /\ child.genotypes[i] \in Range(gpm.genotypes)
                 /\ LET j == IndexOf(gpm.genotypes, child.genotypes[i])
                    IN /\ j \in DOMAIN gpm.phenotypes
                       /\ child.phenotypes[i] = gpm.phenotypes[j]

\* the Sample returned holds rows x columns replicate phenotypes
Shape(smp, rows, columns) ==
    /\ Len(smp.replicate_phenotypes) = rows
    /\ \A i \in DOMAIN smp.replicate_phenotypes :
          Len(smp.replicate_phenotypes[i]) = columns

\* the last row of the Sample returned is the last genotype of the map
LastRowIsDerived(smp) ==
    /\ Len(smp.genotypes) >= 1
    /\ gpm.n \in DOMAIN gpm.genotypes
    /\ smp.genotypes[Len(smp.genotypes)] = gpm.genotypes[gpm.n]

\* every genotype of the map has an error distribution to draw from
EveryDrawable(m) ==
    /\ Len(m.genotypes) = m.n
    /\ CanDraw(m, [i \in 1..m.n |-> i - 1])

\* the arguments of the last sample call are ones sample accepts: a list of
\* known genotypes, or a fraction in [0,1]
AcceptedArguments ==
    IF result.genotypes.given
    THEN Range(result.genotypes.v) \subseteq Range(gpm.genotypes)
    ELSE /\ 0 <= result.fraction[1]
         /\ result.fraction[1] <= result.fraction[2]

\* C4: whenever sample is called with derived=True, for an n_samples >= 1
\* and a fraction in [0,1], with or without a genotypes list, the call
\* returns a Sample whose last row is genotypes[n-1], and with fraction=1.0
\* the replicate matrix is n x s. Stated for the maps on which every
\* genotype has an error distribution, where sampling itself cannot fail.
C4_DerivedAlwaysLast ==
    (/\ result.op = "sample"
     /\ result.derived
     /\ result.n_samples >= 1
     /\ AcceptedArguments
     /\ EveryDrawable(gpm)) =>
        /\ result.ok
        /\ LastRowIsDerived(result.sample)
        /\ result.fraction = <<1, 1>> =>
              Shape(result.sample, gpm.n, result.n_samples)

\* the map has no uncertainty view
NoUncertainty(m) ==
    /\ m.stdeviations.tag = "None"
    /\ ~m.std.exists
    /\ ~m.err.exists
    /\ ~m.Raw.err.exists

\* the arguments of the last sample call select at least one genotype, all
\* of them known
SelectsSome ==
    IF result.genotypes.given
    THEN /\ result.genotypes.v # <<>>
         /\ Range(result.genotypes.v) \subseteq Range(gpm.genotypes)
    ELSE /\ 0 <= result.fraction[1]
         /\ result.fraction[1] <= result.fraction[2]
         /\ frac_length(gpm, result.fraction) >= 1

\* C5: on a map without uncertainty views, sample with n_samples = 1 returns
\* a Sample holding the recorded genotypes and phenotypes at the selected
\* indices, and sample with n_samples # 1 fails.
C5_DegenerateSample ==
    (result.op = "sample" /\ NoUncertainty(gpm) /\ SelectsSome) =>
        IF result.n_samples = 1
        THEN /\ result.ok
             /\ \A i \in DOMAIN result.sample.indices :
                   LET index == result.sample.indices[i]
                   IN /\ result.sample.genotypes[i] = gpm.genotypes[index + 1]
                      /\ result.sample.phenotypes[i] = gpm.phenotypes[index + 1]
        ELSE ~result.ok

\* C6: after construction with stdeviations and log_transform true, Raw.std
\* and Raw.err are built from the raw phenotypes with log_transform=False,
\* std and err from the raw phenotypes with log_transform=True, all four from
\* the same stdeviations.
C6_RawViewsFromRaw ==
    (Constructed /\ gpm.log_transform /\ gpm.stdeviations.tag = "array") =>
        LET raw == gpm.Raw.phenotypes
            sd == gpm.stdeviations.v
        IN /\ gpm.Raw.std = StandardDeviationMap(raw, sd, FALSE)
           /\ gpm.Raw.err = StandardErrorMap(raw, sd, FALSE, gpm.n_replicates)
           /\ gpm.std = StandardDeviationMap(raw, sd, TRUE)
           /\ gpm.err = StandardErrorMap(raw, sd, TRUE, gpm.n_replicates)

\* phenotypes and the state derived from them are the same in a and b
SameDerived(a, b) ==
    /\ a.phenotypes = b.phenotypes
    /\ a.Raw = b.Raw
    /\ a.std = b.std
    /\ a.err = b.err
    /\ a.Binary.phenotypes = b.Binary.phenotypes

\* C7 as claimed: on a constructed map, assigning phenotypes its own value,
\* and doing so again, leaves phenotypes, Raw, std, err and
\* Binary.phenotypes as they were, whatever log_transform is.
C7_OwnValueIdempotent ==
    [][(/\ result'.op = "phenotypes"
        /\ result'.arg.own
        /\ (nops = 0 \/ (nops = 1 /\ result'.again)))
          => SameDerived(gpm, gpm')]_vars

\* C7 as amended: while log_transform is false, assigning phenotypes its own
\* value, any number of times, leaves phenotypes, Raw, std, err and
\* Binary.phenotypes as they were.
C7_OwnValueIdempotentLinear ==
    [][(/\ result'.op = "phenotypes"
        /\ result'.arg.own
        /\ ~gpm.log_transform)
          => SameDerived(gpm, gpm')]_vars

\* the second own-value assignment in a row on a map built with stdeviations
\* and log_transform false
C7_Witness ==
    /\ result.op = "phenotypes"
    /\ result.arg.own
    /\ result.again
    /\ result.ok
    /\ nops = 2
    /\ ~gpm.log_transform
    /\ gpm.stdeviations.tag = "array"

\* C8: a Raw view exists iff log_transform is true, and then its genotypes
\* and phenotypes are the pre-transform genotypes and phenotypes of the map.
C8_RawIffLogTransform ==
    /\ gpm.Raw.exists <=> gpm.log_transform
    /\ gpm.Raw.exists =>
          /\ gpm.Raw.genotypes = gpm.genotypes
          /\ logbase(gpm.Raw.phenotypes) = gpm.phenotypes

\* phenotypes, Raw and Binary.phenotypes are the same in a and b
SamePhenotypeState(a, b) ==
    /\ a.phenotypes = b.phenotypes
    /\ a.Raw = b.Raw
    /\ a.Binary.phenotypes = b.Binary.phenotypes

\* C9 as claimed: an array whose size differs from n fails with the
\* length-mismatch error and leaves phenotypes, Raw and Binary.phenotypes as
\* they were; a genotype-keyed mapping stores at each index i the mapping's
\* value for genotypes[i].
C9_MismatchOrMapping ==
    [][result'.op = "phenotypes" =>
         /\ (~result'.arg.isDict /\ Len(result'.arg.arr) # gpm.n) =>
               /\ result'.error = "ValueError"
               /\ SamePhenotypeState(gpm, gpm')
         /\ (result'.arg.isDict /\ result'.ok) =>
               /\ Len(gpm'.phenotypes) = gpm.n
               /\ \A i \in 1..gpm.n :
                     gpm'.phenotypes[i] = result'.arg.dict[gpm.genotypes[i]]]_vars

\* C9 as amended: an array whose size differs from len(genotypes) fails with
\* the length-mismatch error and leaves phenotypes, Raw and Binary.phenotypes
\* as they were; a genotype-keyed mapping holding every genotype stores at
\* each index i the mapping's value for genotypes[i] when log_transform is
\* false, and when it is true stores that value in Raw.phenotypes[i] and
\* logbase of it in phenotypes[i].
C9_MismatchOrMappingTransformed ==
    [][result'.op = "phenotypes" =>
         /\ (~result'.arg.isDict /\ Len(result'.arg.arr) # Len(gpm.genotypes)) =>
               /\ result'.error = "ValueError"
               /\ SamePhenotypeState(gpm, gpm')
         /\ (result'.arg.isDict /\ result'.ok) =>
               /\ Len(gpm'.phenotypes) = gpm.n
               /\ \A i \in 1..gpm.n :
                     LET value == result'.arg.dict[gpm.genotypes[i]]
                     IN IF gpm.log_transform
                        THEN /\ gpm'.Raw.phenotypes[i] = value
                             /\ gpm'.phenotypes[i] = Log10(value)
                        ELSE gpm'.phenotypes[i] = value]_vars

\* a mapping has just been assigned to a log-transformed map of four
\* genotypes
C9_Witness ==
    /\ result.op = "phenotypes"
    /\ result.arg.isDict
    /\ result.ok
    /\ gpm.log_transform
    /\ gpm.n = 4
    /\ Len(gpm.phenotypes) = 4

\* C10: on a map built with stdeviations, after every successful assignment
\* to phenotypes, log_transform or n_replicates, std and err and their copies
\* on Raw and Binary are what _construct_errors builds from the map as it is.
C10_ViewsCurrent ==
    (/\ gpm.stdeviations.tag = "array"
     /\ result.op \in {"phenotypes", "log_transform", "n_replicates"}
     /\ result.ok) =>
        LET built == _construct_errors(gpm, gpm.stdeviations)
        IN /\ built.ok
           /\ gpm.std = built.m.std
           /\ gpm.err = built.m.err
           /\ gpm.Raw.std = built.m.Raw.std
           /\ gpm.Raw.err = built.m.Raw.err
           /\ gpm.Binary.std = built.m.Binary.std
           /\ gpm.Binary.err = built.m.Binary.err

\* C11: in every state after construction the Binary view exists and
\* Binary.phenotypes equals the phenotypes of the map; after a successful
\* assignment to phenotypes both hold the values assigned, log-transformed
\* when log_transform is true.
C11_BinaryMirrors ==
    /\ gpm.Binary.exists
    /\ gpm.Binary.phenotypes = gpm.phenotypes
    /\ (result.op = "phenotypes" /\ result.ok) =>
          LET given == IF result.arg.isDict
                       THEN _if_dict(gpm, result.arg.dict)
                       ELSE result.arg.arr
          IN gpm.Binary.phenotypes
                = (IF gpm.log_transform THEN logbase(given) ELSE given)

\* an array has just been assigned to a log-transformed map of four
\* genotypes, and the phenotypes changed
C11_Witness ==
    /\ result.op = "phenotypes"
    /\ result.ok
    /\ ~result.arg.isDict
    /\ ~result.arg.own
    /\ gpm.log_transform
    /\ gpm.n = 4
    /\ gpm.Binary.phenotypes = <<Unit, 0, 0, 0>>

\* the standard deviations of the map m, when present, are one per genotype
OnePerGenotype(m) ==
    m.stdeviations.tag = "array" => Len(m.stdeviations.v) = m.n

\* C12: in every map produced by construction, by subspace or by get_gpm,
\* stdeviations, when present, has n entries and entry i is the standard
\* deviation of genotypes[i]: for subspace the one the parent holds for that
\* genotype, for get_gpm the one the Sample holds for that row.
C12_StdeviationsAligned ==
    /\ OnePerGenotype(gpm)
    /\ (result.op = "subspace" /\ result.ok) =>
          /\ OnePerGenotype(result.child)
          /\ result.child.stdeviations.tag = "array" =>
                \A i \in DOMAIN result.child.genotypes :
                   /\ i \in DOMAIN result.child.stdeviations.v
                   /\ result.child.genotypes[i] \in Range(gpm.genotypes)
                   /\ result.child.stdeviations.v[i]
                         = gpm.stdeviations.v[IndexOf(gpm.genotypes,
                                                      result.child.genotypes[i])]
    /\ (result.op = "get_gpm" /\ result.ok) =>
          /\ OnePerGenotype(result.child)
          /\ result.child.genotypes = result.sample.genotypes
          /\ result.child.stdeviations = Arr(result.sample.stdeviations)

====
